---- MODULE Spec2Model ----
(***************************************************************************)
(* The simulation engine of the tokyo-rs game server (server/src/game.rs): *)
(* struct Game with add_player, player_left, handle_cmd, tick and reset.   *)
(*                                                                         *)
(* Numbers.  Positions are integers.  A heading is a number of quarter     *)
(* turns (0 = +x, 1 = +y, 2 = -x, 3 = -y), so that angle_to_vector is      *)
(* exact.  The wall clock (Instant::now / SystemTime::now) is the variable *)
(* now, in whole seconds.  The time step dt of tick is a number of         *)
(* 1/TICKS_PER_SECOND seconds.                                             *)
(***************************************************************************)
EXTENDS Integers, Sequences, FiniteSets, TLC

\* ------------------------------------------------------------ constants
DEAD_PUNISH == 3
TICKS_PER_SECOND == 30
MAX_CONCURRENT_BULLETS == 4
SURVIVAL_TIMEOUT == 10
SURVIVAL_POINT_INTERVAL == 4
distance_from_player == 5

\* tokyo::models: the radii and speeds (per second) of players and bullets.
PLAYER_RADIUS == 10
BULLET_RADIUS == 2
BULLET_SPEED == 300
PLAYER_BASE_SPEED == 300

\* bullet_id_counter is a u32.  The integers of the model checker are 32-bit
\* signed, so the counter of the model wraps at 2^30 in place of 2^32.
U32Modulus == 2 ^ 30

\* ------------------------------------------------------------ bounds
\* the clock stops at MaxTime seconds
MaxTime == 12
\* no score grows past MaxScore
MaxScore == 2
\* at most MaxBulletId bullets are created between two resets
MaxBulletId == 5

\* ------------------------------------------------------------ inputs
Rotate(angle) == [type |-> "Rotate", arg |-> angle]
Throttle(throttle) == [type |-> "Throttle", arg |-> throttle]
Fire == [type |-> "Fire", arg |-> 0]

\* An environment is a world and what the clients and the rng do in it:
\*   config   GameConfig, the bounds of the world
\*   ids      the player ids the coordinator hands out
\*   pos      the positions the rng draws from
\*   cmds     the commands the clients send, as pairs << player id, command >>
\*   ammo     the bullet ids, counted from start on, that the clients may use
\*   sleeps   the seconds that pass between two messages
\*   dev_mode APP_CONFIG.dev_mode
\*   keys     the keys the requests to /reset present
\*   start    the bullets fired, and gone, before the first message: the
\*            value of bullet_id_counter the messages start from
Wide == [bound_x |-> 40, bound_y |-> 20]
Envs == {
    \* one player fires until the cap
    [ name |-> "fire", config |-> Wide, ids |-> {1, 2}, pos |-> { <<10, 10>> },
      cmds |-> { <<1, Fire>> }, ammo |-> MaxBulletId, sleeps |-> {}, start |-> 0,
      dev_mode |-> FALSE, keys |-> {"player"} ],
    \* a shooter and a target two radii apart
    [ name |-> "duel", config |-> Wide, ids |-> {1, 2},
      pos |-> { <<10, 10>>, <<30, 10>> },
      cmds |-> { <<1, Fire>>, <<1, Throttle(2)>> }, ammo |-> MaxBulletId - 3, sleeps |-> {}, start |-> 0,
      dev_mode |-> FALSE, keys |-> {"player"} ],
    \* deaths, respawns and survival rewards as time passes
    [ name |-> "clock", config |-> Wide, ids |-> {1, 2},
      pos |-> { <<10, 10>>, <<30, 10>> },
      cmds |-> { <<1, Fire>> }, ammo |-> MaxBulletId - 4, sleeps |-> {DEAD_PUNISH}, start |-> 0,
      dev_mode |-> FALSE, keys |-> {"player"} ],
    \* one player steering in a square world
    [ name |-> "move", config |-> [bound_x |-> 40, bound_y |-> 40], ids |-> {1},
      pos |-> { <<10, 10>>, <<30, 30>> },
      cmds |-> { <<1, Throttle(2)>>, <<1, Throttle(-1)>>, <<1, Rotate(0)>>,
                 <<1, Rotate(1)>>, <<1, Rotate(2)>>, <<1, Rotate(3)>> },
      ammo |-> 0, sleeps |-> {}, start |-> 0,
      dev_mode |-> TRUE, keys |-> {"stranger"} ],
    \* a world narrower than a player
    [ name |-> "tiny", config |-> [bound_x |-> 10, bound_y |-> 10], ids |-> {1, 2},
      pos |-> { <<0, 0>>, <<10, 10>> },
      cmds |-> { <<1, Throttle(2)>>, <<1, Fire>> }, ammo |-> MaxBulletId - 4, sleeps |-> {}, start |-> 0,
      dev_mode |-> FALSE, keys |-> {"player"} ],
    \* two shooters side by side at the edge of the world
    [ name |-> "edge", config |-> Wide, ids |-> {1, 2},
      pos |-> { <<26, 10>>, <<28, 10>> },
      cmds |-> { <<1, Fire>>, <<2, Fire>>, <<1, Rotate(2)>> }, ammo |-> MaxBulletId - 3,
      sleeps |-> {}, start |-> 0,
      dev_mode |-> FALSE, keys |-> {"player"} ],
    \* three players in a row
    [ name |-> "crowd", config |-> Wide, ids |-> {1, 2, 3},
      pos |-> { <<10, 10>>, <<20, 10>>, <<30, 10>> },
      cmds |-> { <<1, Fire>> }, ammo |-> MaxBulletId - 4, sleeps |-> {}, start |-> 0,
      dev_mode |-> FALSE, keys |-> {"player"} ],
    \* commands of a player that collides and dies
    [ name |-> "ghost", config |-> Wide, ids |-> {1, 2}, pos |-> { <<10, 10>> },
      cmds |-> { <<1, Fire>>, <<1, Rotate(2)>>, <<1, Throttle(1)>> },
      ammo |-> MaxBulletId - 4, sleeps |-> {}, start |-> 0,
      dev_mode |-> FALSE, keys |-> {"player", "stranger"} ],
    \* one player firing as the counter of the bullet ids wraps around
    [ name |-> "wrap", config |-> Wide, ids |-> {1}, pos |-> { <<10, 10>> },
      cmds |-> { <<1, Fire>> }, ammo |-> MaxBulletId - 1, sleeps |-> {},
      start |-> U32Modulus - 2, dev_mode |-> FALSE, keys |-> {"player"} ]
    }
\* the time steps tick is called with, in 1/TICKS_PER_SECOND seconds
Dts == {1}

VARIABLES
    config,             \* Game.config
    players,            \* Game.state.players : Vec<PlayerState>
    dead,               \* Game.state.dead : Vec<DeadPlayer>
    bullets,            \* Game.state.bullets : Vec<BulletState>
    scoreboard,         \* Game.state.scoreboard : HashMap<u32, u32>
    bullet_id_counter,  \* Game.bullet_id_counter
    survival_times,     \* Game.survival_times : HashMap<u32, Instant>
    now,                \* the wall clock
    connected,          \* history: the ids joined and not left
    op,                 \* history: the last operation and what it did
    env,                \* the environment of this run
    coordinator         \* the coordinator: its mailbox, what the senders have
                        \* yet to send, and the log of what it applied

vars == << config, players, dead, bullets, scoreboard, bullet_id_counter,
           survival_times, now, connected, op, env, coordinator >>
game == << config, players, dead, bullets, scoreboard, bullet_id_counter,
           survival_times >>

\* ------------------------------------------------------------ helpers
Max(a, b) == IF a >= b THEN a ELSE b
Min(a, b) == IF a <= b THEN a ELSE b
Range(s) == { s[i] : i \in 1 .. Len(s) }
MapSeq(F(_), s) == [ i \in 1 .. Len(s) |-> F(s[i]) ]
EmptyMap == [ k \in {} |-> 0 ]
\* HashMap::insert
Insert(m, k, v) == [ x \in DOMAIN m \cup {k} |-> IF x = k THEN v ELSE m[x] ]
\* HashMap::remove
Remove(m, k) == [ x \in DOMAIN m \ {k} |-> m[x] ]
\* Vec::remove(idx)
RemoveAt(s, idx) == SubSeq(s, 1, idx - 1) \o SubSeq(s, idx + 1, Len(s))

Ids_of(ps) == { ps[i].id : i \in 1 .. Len(ps) }
LiveIds == Ids_of(players)
DeadIds == { dead[i].player.id : i \in 1 .. Len(dead) }
Score(id) == IF id \in DOMAIN scoreboard THEN scoreboard[id] ELSE 0

\* angle_to_vector: (cos, sin) of a heading
angle_to_vector(angle) ==
    CASE angle = 0 -> << 1, 0 >>
      [] angle = 1 -> << 0, 1 >>
      [] angle = 2 -> << -1, 0 >>
      [] angle = 3 -> << 0, -1 >>

\* Triangle::is_colliding, with the radius of each side
is_colliding(self, self_radius, other, other_radius) ==
    LET d_x == other.x - self.x
        d_y == other.y - self.y
        d_r == other_radius + self_radius
        squared_dist == d_x * d_x + d_y * d_y
        squared_radii == d_r * d_r
    IN  squared_dist < squared_radii

\* PlayerState::new
NewPlayer(player_id) == [ id |-> player_id, angle |-> 0, x |-> 0, y |-> 0, throttle |-> 0 ]

\* The positions PlayerState::randomize draws from, among the positions ps:
\* inside the bounds with the margin of a radius; in a world too narrow for
\* that margin, inside the bounds.
InMargin(coord, bound) == PLAYER_RADIUS <= coord /\ coord <= bound - PLAYER_RADIUS
RandomPositions(cfg, ps) ==
    LET inside == { q \in ps : InMargin(q[1], cfg.bound_x) /\ InMargin(q[2], cfg.bound_y) }
    IN  IF inside # {} THEN inside
        ELSE { q \in ps : q[1] \in 0 .. cfg.bound_x /\ q[2] \in 0 .. cfg.bound_y }
\* PlayerState::randomize, with the position the rng draws
randomize(player, pos) == [ player EXCEPT !.x = pos[1], !.y = pos[2] ]

bounds(cfg) == << cfg.bound_x, cfg.bound_y >>

\* the history of a message: its kind, its arguments, whether it changed the
\* engine and, of a tick, the ids it revived, killed (collided, shot) and
\* rewarded; of a reset, revived are the ids that were corpses
NoOp == [ kind |-> "init", id |-> 0, cmd |-> "none", dt |-> 0, changed |-> FALSE,
          revived |-> {}, collided |-> {}, shot |-> {}, rewarded |-> {},
          grazed |-> {}, spared |-> {}, clashed |-> {}, key |-> "none" ]

\* ------------------------------------------------------------ Game::new
\* a coordinator with nothing in its mailbox and nothing to come
Idle == [ mailbox |-> << >>, pending |-> << >>, log |-> << >> ]

Init ==
    /\ env \in Envs
    /\ config = env.config
    /\ players = << >>
    /\ dead = << >>
    /\ bullets = << >>
    /\ scoreboard = EmptyMap
    /\ bullet_id_counter = env.start
    /\ survival_times = EmptyMap
    /\ now = 0
    /\ connected = {}
    /\ op = NoOp
    /\ coordinator = Idle

\* ------------------------------------------------------------ add_player
\* add_player that gives the player no survival time
add_player_unclocked(g, player_id, pos, t) ==
    [ g EXCEPT !.players = Append(@, randomize(NewPlayer(player_id), pos)) ]

\* the engine state after add_player(player_id) on state g (a record of the
\* fields of Game), the rng drawing pos
add_player(g, player_id, pos, t) ==
    [ g EXCEPT
        !.players = Append(@, randomize(NewPlayer(player_id), pos)),
        !.survival_times = Insert(@, player_id, t + SURVIVAL_TIMEOUT) ]

Self == [ config |-> config, players |-> players, dead |-> dead, bullets |-> bullets,
          scoreboard |-> scoreboard, bullet_id_counter |-> bullet_id_counter,
          survival_times |-> survival_times ]

Becomes(g) ==
    /\ config' = g.config
    /\ players' = g.players
    /\ dead' = g.dead
    /\ bullets' = g.bullets
    /\ scoreboard' = g.scoreboard
    /\ bullet_id_counter' = g.bullet_id_counter
    /\ survival_times' = g.survival_times

AddPlayer(player_id) ==
    /\ \E pos \in RandomPositions(config, env.pos) :
          Becomes(add_player(Self, player_id, pos, now))
    /\ connected' = connected \cup {player_id}
    /\ op' = [ NoOp EXCEPT !.kind = "add", !.id = player_id, !.changed = TRUE ]
    /\ UNCHANGED << now, env >>

\* ------------------------------------------------------------ player_left
\* iter().position(|p| p.id == player_id): the first index, 0 for None
FirstIndex(ps, player_id) ==
    IF player_id \in Ids_of(ps)
    THEN CHOOSE i \in 1 .. Len(ps) :
            /\ ps[i].id = player_id
            /\ \A j \in 1 .. i - 1 : ps[j].id # player_id
    ELSE 0

Corpses(ds) == MapSeq(LAMBDA c : c.player, ds)

\* player_left that drops the survival times of all the players
player_left_clearing(g, player_id) ==
    LET idx == FirstIndex(g.players, player_id)
        didx == FirstIndex(Corpses(g.dead), player_id)
    IN  [ g EXCEPT
            !.players = IF idx # 0 THEN RemoveAt(@, idx) ELSE @,
            !.dead = IF didx # 0 THEN RemoveAt(@, didx) ELSE @,
            !.survival_times = EmptyMap ]

\* player_left that also drops the score of the player
player_left_unscored(g, player_id) ==
    LET idx == FirstIndex(g.players, player_id)
        didx == FirstIndex(Corpses(g.dead), player_id)
    IN  [ g EXCEPT
            !.players = IF idx # 0 THEN RemoveAt(@, idx) ELSE @,
            !.dead = IF didx # 0 THEN RemoveAt(@, didx) ELSE @,
            !.scoreboard = Remove(@, player_id),
            !.survival_times = Remove(@, player_id) ]

player_left(g, player_id) ==
    LET idx == FirstIndex(g.players, player_id)
        didx == FirstIndex(Corpses(g.dead), player_id)
    IN  [ g EXCEPT
            !.players = IF idx # 0 THEN RemoveAt(@, idx) ELSE @,
            !.dead = IF didx # 0 THEN RemoveAt(@, didx) ELSE @,
            !.survival_times = Remove(@, player_id) ]

PlayerLeft(player_id) ==
    /\ Becomes(player_left(Self, player_id))
    /\ connected' = connected \ {player_id}
    /\ op' = [ NoOp EXCEPT !.kind = "left", !.id = player_id,
                           !.changed = (player_left(Self, player_id) # Self) ]
    /\ UNCHANGED << now, env >>

\* ------------------------------------------------------------ handle_cmd
active_bullets(bs, player_id) ==
    Cardinality({ i \in 1 .. Len(bs) : bs[i].player_id = player_id })

\* the bullet a Fire of player creates
new_bullet(player, bullet_id) ==
    LET v == angle_to_vector(player.angle)
    IN  [ id |-> bullet_id,
          player_id |-> player.id,
          angle |-> player.angle,
          x |-> player.x + v[1] * distance_from_player,
          y |-> player.y + v[2] * distance_from_player ]

\* the counter stopping at the last u32 (saturating_add) in place of wrapping
saturating_inc(n) == Min(n + 1, U32Modulus - 1)

\* u32::wrapping_add(1)
wrapping_inc(n) == (n + 1) % U32Modulus

\* may_fire with the cap off by one: a player owning 4 bullets fires a fifth
may_fire_off_by_one(bs, player) == active_bullets(bs, player.id) <= MAX_CONCURRENT_BULLETS

may_fire(bs, player) == active_bullets(bs, player.id) < MAX_CONCURRENT_BULLETS

clamp_throttle(throttle) == Min(Max(throttle, 0), 1)

\* handle_cmd taking the bullet id before it looks the player up
handle_cmd_eager(g, player_id, cmd) ==
    LET idx == FirstIndex(g.players, player_id)
        player == g.players[idx]
        g1 == IF cmd.type = "Fire" THEN [ g EXCEPT !.bullet_id_counter = wrapping_inc(@) ]
              ELSE g
    IN  IF idx = 0 THEN g1
        ELSE CASE cmd.type = "Rotate" ->
                    [ g EXCEPT !.players[idx].angle = cmd.arg ]
               [] cmd.type = "Throttle" ->
                    [ g EXCEPT !.players[idx].throttle = clamp_throttle(cmd.arg) ]
               [] cmd.type = "Fire" ->
                    IF active_bullets(g.bullets, player.id) < MAX_CONCURRENT_BULLETS
                    THEN [ g1 EXCEPT
                             !.bullets = Append(@, new_bullet(player, g.bullet_id_counter)) ]
                    ELSE g

handle_cmd(g, player_id, cmd) ==
    LET idx == FirstIndex(g.players, player_id)
        player == g.players[idx]
    IN  IF idx = 0 THEN g
        ELSE CASE cmd.type = "Rotate" ->
                    [ g EXCEPT !.players[idx].angle = cmd.arg ]
               [] cmd.type = "Throttle" ->
                    [ g EXCEPT !.players[idx].throttle = clamp_throttle(cmd.arg) ]
               [] cmd.type = "Fire" ->
                    IF may_fire(g.bullets, player)
                    THEN [ g EXCEPT
                             !.bullet_id_counter = wrapping_inc(@),
                             !.bullets = Append(@, new_bullet(player, g.bullet_id_counter)) ]
                    ELSE g

HandleCmdTo(g, player_id, cmd) ==
    /\ Len(g.bullets) > Len(bullets) =>
          (bullet_id_counter - env.start) % U32Modulus < env.ammo
    /\ Becomes(g)
    /\ op' = [ NoOp EXCEPT !.kind = "cmd", !.id = player_id, !.cmd = cmd.type,
                           !.changed = (g # Self) ]
    /\ UNCHANGED << now, connected, env >>

HandleCmd(player_id, cmd) == HandleCmdTo(handle_cmd(Self, player_id, cmd), player_id, cmd)

\* ------------------------------------------------------------ tick
\* Revive the dead: extract_if(|corpse| corpse.respawn <= now)
\* is_due one instant late: a corpse is not revived at its respawn time
is_due_late(corpse, t) == corpse.respawn < t
is_due(corpse, t) == corpse.respawn <= t
revived_players(ds, t) == Corpses(SelectSeq(ds, LAMBDA c : is_due(c, t)))
\* still_dead that forgets to take the revived out of the corpses
still_dead_all(ds, t) == ds
still_dead(ds, t) == SelectSeq(ds, LAMBDA c : ~is_due(c, t))

\* the distance covered in dt at speed (per second)
Step(speed, dt) == (speed * dt) \div TICKS_PER_SECOND

\* Advance bullets
\* advance_bullet that leaves the bullet where it is
advance_bullet_stalled(bullet, dt) == bullet

advance_bullet(bullet, dt) ==
    LET vel == angle_to_vector(bullet.angle)
    IN  [ bullet EXCEPT !.x = @ + vel[1] * Step(BULLET_SPEED, dt),
                        !.y = @ + vel[2] * Step(BULLET_SPEED, dt) ]

\* Keep the players in bounds: x.max(PLAYER_RADIUS).min(bound - PLAYER_RADIUS)
\* keep_in_bounds without the upper end
keep_in_bounds_low(coord, bound) == Max(coord, PLAYER_RADIUS)
keep_in_bounds(coord, bound) == Min(Max(coord, PLAYER_RADIUS), bound - PLAYER_RADIUS)

\* Move the player
move_player(player, dt, cfg) ==
    LET vel == angle_to_vector(player.angle)
        x == player.x + vel[1] * Step(PLAYER_BASE_SPEED, dt) * player.throttle
        y == player.y + vel[2] * Step(PLAYER_BASE_SPEED, dt) * player.throttle
    IN  [ player EXCEPT !.x = keep_in_bounds(x, cfg.bound_x),
                        !.y = keep_in_bounds(y, cfg.bound_y) ]

\* Remove out-of-bound bullets: the bullets retain keeps
bullet_in_bounds(b, cfg) ==
    /\ b.x > BULLET_RADIUS
    /\ b.x < cfg.bound_x + BULLET_RADIUS
    /\ b.y > BULLET_RADIUS
    /\ b.y < cfg.bound_y + BULLET_RADIUS

\* colliding_buf of the bullets: the ids of the bullets of a colliding pair
\* colliding_buf of the bullets, a bullet passing through those of its owner
colliding_bullets_of_others(bs) ==
    UNION { {bs[i].id, bs[j].id} : << i, j >> \in
              { pr \in (1 .. Len(bs)) \X (1 .. Len(bs)) :
                  /\ bs[pr[1]].player_id # bs[pr[2]].player_id
                  /\ is_colliding(bs[pr[1]], BULLET_RADIUS, bs[pr[2]], BULLET_RADIUS) } }

colliding_bullets(bs) ==
    UNION { {bs[i].id, bs[j].id} : << i, j >> \in
              { pr \in (1 .. Len(bs)) \X (1 .. Len(bs)) :
                  /\ bs[pr[1]].id # bs[pr[2]].id
                  /\ is_colliding(bs[pr[1]], BULLET_RADIUS, bs[pr[2]], BULLET_RADIUS) } }

\* colliding_buf of the players keeping, of two that collide, the earlier one
colliding_players_earlier(ps) ==
    { ps[i].id : i \in { k \in 1 .. Len(ps) :
        \E j \in k + 1 .. Len(ps) :
            /\ ps[k].id # ps[j].id
            /\ is_colliding(ps[k], PLAYER_RADIUS, ps[j], PLAYER_RADIUS) } }

\* colliding_buf of the players
colliding_players(ps) ==
    UNION { {ps[i].id, ps[j].id} : << i, j >> \in
              { pr \in (1 .. Len(ps)) \X (1 .. Len(ps)) :
                  /\ ps[pr[1]].id # ps[pr[2]].id
                  /\ is_colliding(ps[pr[1]], PLAYER_RADIUS, ps[pr[2]], PLAYER_RADIUS) } }

\* DeadPlayer { respawn: SystemTime::now() + DEAD_PUNISH, player }, randomized
corpse_of(player, t, rnd) ==
    [ respawn |-> t + DEAD_PUNISH, player |-> randomize(player, rnd[player.id]) ]

\* is_hit without the test of the owner
is_hit_any(player, bullet) == is_colliding(player, PLAYER_RADIUS, bullet, BULLET_RADIUS)

\* the test of the extract_if of "count the dead"
is_hit(player, bullet) ==
    /\ is_colliding(player, PLAYER_RADIUS, bullet, BULLET_RADIUS)
    /\ bullet.player_id # player.id

\* "count the dead" with every bullet tested against all the players the loop
\* started with, the dead taken out of the live list at the end
RECURSIVE count_the_dead_unextracted(_, _, _, _)
count_the_dead_unextracted(bs, s, t, rnd) ==
    IF bs = << >>
    THEN [ s EXCEPT !.players =
             SelectSeq(@, LAMBDA p : p.id \notin Ids_of(Corpses(s.dead))) ]
    ELSE LET bullet == Head(bs)
             deceased == SelectSeq(s.players, LAMBDA p : is_hit(p, bullet))
             s1 == [ players |-> s.players,
                     hits |-> s.hits \o MapSeq(LAMBDA p : bullet.player_id, deceased),
                     used_bullets |-> s.used_bullets \o MapSeq(LAMBDA p : bullet.id, deceased),
                     survival_times |->
                         [ k \in DOMAIN s.survival_times \cup Ids_of(deceased) |->
                             IF k \in Ids_of(deceased) THEN t + SURVIVAL_TIMEOUT
                             ELSE s.survival_times[k] ],
                     dead |-> s.dead \o MapSeq(LAMBDA p : corpse_of(p, t, rnd), deceased) ]
         IN  count_the_dead_unextracted(Tail(bs), s1, t, rnd)

\* "count the dead": the loop over the bullets bs, on s = the players, the
\* corpses, hits, used_bullets and the survival times so far
RECURSIVE count_the_dead(_, _, _, _)
count_the_dead(bs, s, t, rnd) ==
    IF bs = << >> THEN s
    ELSE LET bullet == Head(bs)
             deceased == SelectSeq(s.players, LAMBDA p : is_hit(p, bullet))
             s1 == [ players |-> SelectSeq(s.players, LAMBDA p : ~is_hit(p, bullet)),
                     hits |-> s.hits \o MapSeq(LAMBDA p : bullet.player_id, deceased),
                     used_bullets |-> s.used_bullets \o MapSeq(LAMBDA p : bullet.id, deceased),
                     survival_times |->
                         [ k \in DOMAIN s.survival_times \cup Ids_of(deceased) |->
                             IF k \in Ids_of(deceased) THEN t + SURVIVAL_TIMEOUT
                             ELSE s.survival_times[k] ],
                     dead |-> s.dead \o MapSeq(LAMBDA p : corpse_of(p, t, rnd), deceased) ]
         IN  count_the_dead(Tail(bs), s1, t, rnd)

\* Update the scoreboard: *entry(player_id).or_default() += 1 for each hit
RECURSIVE credit(_, _)
credit(sb, hits) ==
    IF hits = << >> THEN sb
    ELSE credit(Insert(sb, Head(hits),
                       (IF Head(hits) \in DOMAIN sb THEN sb[Head(hits)] ELSE 0) + 1),
                Tail(hits))

\* Reward players for staying alive: the keys whose time has come
is_rewarded(next_reward_time, t) == next_reward_time <= t
rewarded_ids(st, t) == { k \in DOMAIN st : is_rewarded(st[k], t) }

\* tick, from "Revive the dead" to "Keep the players in bounds": the players
\* and the corpses
moved_players(g, dt, t) ==
    MapSeq(LAMBDA p : move_player(p, dt, g.config), g.players \o revived_players(g.dead, t))

\* tick, "Advance bullets" and "Remove out-of-bound bullets"
kept_bullets(g, dt) ==
    SelectSeq(MapSeq(LAMBDA b : advance_bullet(b, dt), g.bullets),
              LAMBDA b : bullet_in_bounds(b, g.config))

\* retain(|b| !colliding_buf.contains(&b.id))
without_ids(xs, buf) == SelectSeq(xs, LAMBDA x : x.id \notin buf)
\* extract_if(|player| colliding_buf.contains(&player.id))
with_ids(xs, buf) == SelectSeq(xs, LAMBDA x : x.id \in buf)

\* mid_tick_of leaving the players that collided in the live list
mid_tick_of_unextracted(g, t, players3, bullets4) ==
    [ revived |-> Ids_of(revived_players(g.dead, t)),
      dead |-> still_dead(g.dead, t),
      moved_players |-> players3,
      kept_bullets |-> bullets4,
      bullets |-> without_ids(bullets4, colliding_bullets(bullets4)),
      colliding_players |-> colliding_players(players3),
      players |-> players3 ]

\* tick(dt) at time t on engine state g, up to the count of the dead: the
\* players after revival and motion, the bullets after motion and culling, the
\* players and the bullets their collisions leave
mid_tick_of(g, t, players3, bullets4) ==
    [ revived |-> Ids_of(revived_players(g.dead, t)),
      dead |-> still_dead(g.dead, t),
      moved_players |-> players3,
      kept_bullets |-> bullets4,
      bullets |-> without_ids(bullets4, colliding_bullets(bullets4)),
      colliding_players |-> colliding_players(players3),
      players |-> without_ids(players3, colliding_players(players3)) ]

\* the moved players and the kept bullets are computed once and then read
mid_tick(g, dt, t) ==
    CHOOSE m \in { mid_tick_of(g, t, players3, bullets4) :
                     players3 \in { moved_players(g, dt, t) },
                     bullets4 \in { kept_bullets(g, dt) } } : TRUE

\* the corpses of the player-player collisions, then "count the dead"
dead_of(g, m, t, rnd) ==
    count_the_dead(m.bullets,
        [ players |-> m.players, hits |-> << >>, used_bullets |-> << >>,
          survival_times |-> g.survival_times,
          dead |-> m.dead \o MapSeq(LAMBDA p : corpse_of(p, t, rnd),
                                    with_ids(m.moved_players, m.colliding_players)) ],
        t, rnd)

\* the elements of a set of numbers in increasing order
RECURSIVE SortedSeq(_)
SortedSeq(S) ==
    IF S = {} THEN << >>
    ELSE LET lo == CHOOSE k \in S : \A j \in S : k <= j
         IN  << lo >> \o SortedSeq(S \ {lo})

\* "Reward players for staying alive": the survival times after the loop
rewarded_times(st, t) ==
    [ k \in DOMAIN st |-> IF is_rewarded(st[k], t) THEN t + SURVIVAL_POINT_INTERVAL
                          ELSE st[k] ]

\* tick, from "Clear out used bullets" to the end: the new engine state and
\* what happened
end_tick(g, m, s7, t) ==
    [ game |-> [ g EXCEPT
                   !.players = s7.players,
                   !.dead = s7.dead,
                   !.bullets = without_ids(m.bullets, Range(s7.used_bullets)),
                   !.scoreboard = credit(credit(@, s7.hits),
                                         SortedSeq(rewarded_ids(s7.survival_times, t))),
                   !.survival_times = rewarded_times(s7.survival_times, t) ],
      revived |-> m.revived,
      collided |-> m.colliding_players,
      shot |-> Ids_of(m.players) \ Ids_of(s7.players),
      rewarded |-> rewarded_ids(s7.survival_times, t),
      \* history: the players a collision killed while under a bullet of another
      grazed |-> { p.id : p \in { q \in Range(with_ids(m.moved_players, m.colliding_players)) :
                                    \E b \in Range(m.bullets) : is_hit(q, b) } },
      \* history: the bullets left active over a player that another bullet killed
      spared |-> { b.id : b \in { c \in Range(m.bullets) :
                                    /\ c.id \notin Range(s7.used_bullets)
                                    /\ \E q \in Range(m.players) : is_hit(q, c) } },
      \* history: the bullets that collided with a bullet
      clashed |-> Ids_of(m.kept_bullets) \ Ids_of(m.bullets) ]

\* s7, the outcome of "count the dead", is computed once and then read
after_mid_tick(g, m, t, rnd) ==
    CHOOSE r \in { end_tick(g, m, s7, t) : s7 \in { dead_of(g, m, t, rnd) } } : TRUE

\* tick(dt) at time t on engine state g, rnd the positions the rng draws for
\* the players that die
tick(g, dt, t, rnd) ==
    CHOOSE r \in { after_mid_tick(g, m, t, rnd) : m \in { mid_tick(g, dt, t) } } : TRUE

\* the rng's draw for an id that does not die (never read)
NoDraw == [ id \in LiveIds \cup DeadIds |-> << 0, 0 >> ]
dying(r) == r.collided \cup r.shot

TickTo(r, dt) ==
    /\ \A k \in DOMAIN r.game.scoreboard : r.game.scoreboard[k] <= MaxScore
    /\ Becomes(r.game)
    /\ op' = [ NoOp EXCEPT !.kind = "tick", !.dt = dt,
                           !.changed = (r.game # Self),
                           !.revived = r.revived,
                           !.collided = r.collided, !.shot = r.shot,
                           !.rewarded = r.rewarded, !.grazed = r.grazed,
                           !.spared = r.spared, !.clashed = r.clashed ]
    /\ UNCHANGED << now, connected, env >>

Tick(dt) ==
    \E ids \in { dying(tick(Self, dt, now, NoDraw)) } :
        \E rnd \in [ ids -> RandomPositions(config, env.pos) ] :
            \E r \in { tick(Self, dt, now, rnd) } : TickTo(r, dt)

\* ------------------------------------------------------------ reset
\* Game::new(config)
new_game(cfg) ==
    [ config |-> cfg, players |-> << >>, dead |-> << >>, bullets |-> << >>,
      scoreboard |-> EmptyMap, bullet_id_counter |-> 0, survival_times |-> EmptyMap ]

\* for id in ids { new.add_player(id) }
RECURSIVE add_players(_, _, _, _)
add_players(g, ids, rnd, t) ==
    IF ids = << >> THEN g
    ELSE add_players(add_player(g, Head(ids), rnd[Head(ids)], t), Tail(ids), rnd, t)

\* reset that joins the live players again and forgets the corpses
reset_live_only(g, rnd, t) ==
    add_players(new_game(g.config), MapSeq(LAMBDA p : p.id, g.players), rnd, t)

reset(g, rnd, t) ==
    LET new == new_game(g.config)
        new1 == add_players(new, MapSeq(LAMBDA p : p.id, g.players), rnd, t)
    IN  add_players(new1, MapSeq(LAMBDA c : c.player.id, g.dead), rnd, t)

\* APP_CONFIG.api_keys
api_keys == {"player"}
\* the test of socket_handler: dev mode, or a key of the configuration
authenticated(key) == env.dev_mode \/ key \in api_keys

\* reset_handler, on a request that presents key: the message it sends to
\* the coordinator
reset_handler(key) == "Reset"

\* GET /reset: reset_handler sends Reset, on which the coordinator calls reset
Reset ==
    /\ \E key \in env.keys :
          /\ reset_handler(key) = "Reset"
          /\ op' = [ NoOp EXCEPT !.kind = "reset", !.changed = TRUE, !.revived = DeadIds,
                                 !.key = key ]
    /\ \E rnd \in [ LiveIds \cup DeadIds -> RandomPositions(config, env.pos) ] :
          Becomes(reset(Self, rnd, now))
    /\ UNCHANGED << now, connected, env >>

\* ------------------------------------------------------------ the clock
AdvanceTime(secs) ==
    /\ now + secs <= MaxTime
    /\ now' = now + secs
    /\ op' = [ NoOp EXCEPT !.kind = "time" ]
    /\ UNCHANGED << game, connected, env >>

\* ------------------------------------------------------------ the system
\* The coordinator applies one message at a time.  It joins an id only while
\* that id is not connected.
\* Here a message is applied as it is sent: the mailbox stays empty.
Next ==
    \/ (\E id \in env.ids \ connected : AddPlayer(id)) /\ UNCHANGED coordinator
    \/ (\E id \in env.ids : PlayerLeft(id)) /\ UNCHANGED coordinator
    \/ (\E m \in env.cmds : HandleCmd(m[1], m[2])) /\ UNCHANGED coordinator
    \/ (\E dt \in Dts : Tick(dt)) /\ UNCHANGED coordinator
    \/ Reset /\ UNCHANGED coordinator
    \/ (\E secs \in env.sleeps : AdvanceTime(secs)) /\ UNCHANGED coordinator

Spec == Init /\ [][Next]_vars

\* ------------------------------------------------------------ claims
Killed(o) == o.collided \cup o.shot
BulletIds(bs) == { bs[i].id : i \in 1 .. Len(bs) }
Count(xs, id) == Cardinality({ i \in 1 .. Len(xs) : xs[i].id = id })
CorpseOf(ds, id) == ds[CHOOSE i \in 1 .. Len(ds) : ds[i].player.id = id]
Overlap(a, ra, b, rb) ==
    (b.x - a.x) * (b.x - a.x) + (b.y - a.y) * (b.y - a.y) < (ra + rb) * (ra + rb)

\* C1: every player owns at most 4 active bullets, and a Fire of a live player
\* that already owns 4 leaves the list of bullets as it is.
C1_BulletCap ==
    /\ [](\A i \in 1 .. Len(bullets) :
            Cardinality({ j \in 1 .. Len(bullets) :
                            bullets[j].player_id = bullets[i].player_id }) <= 4)
    /\ [][ ( /\ op'.kind = "cmd"
             /\ op'.cmd = "Fire"
             /\ Cardinality({ j \in 1 .. Len(bullets) : bullets[j].player_id = op'.id }) >= 4 )
           => bullets' = bullets ]_vars

\* a Fire of a live player owning 4 bullets was dropped
C1_Witness ==
    /\ op.kind = "cmd"
    /\ op.cmd = "Fire"
    /\ op.id \in LiveIds
    /\ ~op.changed
    /\ Cardinality({ j \in 1 .. Len(bullets) : bullets[j].player_id = op.id }) = 4

\* C2: every connected id is exactly once in the live list and not in the
\* corpse list, or exactly once in the corpse list and not in the live list;
\* the live ids are pairwise distinct.
C2_LiveOrCorpse ==
    /\ \A id \in connected :
          \/ Count(players, id) = 1 /\ Count(Corpses(dead), id) = 0
          \/ Count(players, id) = 0 /\ Count(Corpses(dead), id) = 1
    /\ \A i, j \in 1 .. Len(players) : i # j => players[i].id # players[j].id

\* a tick revived a corpse, which is live again, with two players connected
C2_Witness ==
    /\ op.kind = "tick"
    /\ op.revived \cap LiveIds # {}
    /\ Cardinality(connected) = 2

C4_Original ==
    [][ op'.kind = "tick" =>
          /\ \A id \in Killed(op') :
                id \in DeadIds' /\ CorpseOf(dead', id).respawn = now + 3
          /\ \A i \in 1 .. Len(dead) :
                dead[i].respawn > now => dead[i].player.id \notin LiveIds'
          /\ \A i \in 1 .. Len(dead) :
                dead[i].respawn <= now => dead[i].player.id \in LiveIds' ]_vars

\* C4, amended: a tick at or after the respawn time of a corpse revives it, and
\* leaves it live unless a collision of that same tick kills it again.
C4_Respawn ==
    [][ op'.kind = "tick" =>
          /\ \A id \in Killed(op') :
                id \in DeadIds' /\ CorpseOf(dead', id).respawn = now + 3
          /\ \A i \in 1 .. Len(dead) :
                dead[i].respawn > now =>
                    /\ dead[i].player.id \notin LiveIds'
                    /\ dead[i].player.id \notin op'.revived
          /\ \A i \in 1 .. Len(dead) :
                dead[i].respawn <= now =>
                    /\ dead[i].player.id \in op'.revived
                    /\ \/ dead[i].player.id \in LiveIds'
                       \/ dead[i].player.id \in Killed(op') ]_vars

\* a tick 3 s or more into the game revived a corpse, which is live
C4_Witness ==
    /\ op.kind = "tick"
    /\ now >= 3
    /\ \E id \in op.revived : id \in LiveIds /\ id \notin Killed(op)

\* C5: add_player and every death set the survival time of the player to
\* now + 10 s; a reward adds 1 to the score; no corpse is rewarded within 10 s
\* of its death.
C5_SurvivalReset ==
    [][ /\ op'.kind = "add" => survival_times'[op'.id] = now + 10
        /\ op'.kind = "tick" =>
              /\ \A id \in Killed(op') :
                    id \in DOMAIN survival_times' /\ survival_times'[id] = now + 10
              /\ \A id \in op'.rewarded : Score(id)' >= Score(id) + 1
              /\ \A i \in 1 .. Len(dead) :
                    dead[i].player.id \in op'.rewarded =>
                        now >= (dead[i].respawn - 3) + 10 ]_vars

\* C6 as stated: no score ever decreases.
C6_Original == [][ \A id \in env.ids : Score(id)' >= Score(id) ]_vars

\* C6, amended: no score decreases by add_player, player_left, handle_cmd or
\* tick; reset empties the scoreboard.
C6_Monotone ==
    [][ /\ op'.kind # "reset" => \A id \in env.ids : Score(id)' >= Score(id)
        /\ op'.kind = "reset" => DOMAIN scoreboard' = {} ]_vars

\* a tick in which a bullet killed a player, its owner having a score
C6_Witness ==
    /\ op.kind = "tick"
    /\ op.shot # {}
    /\ \E id \in env.ids : Score(id) >= 1 /\ id \notin op.shot

\* the bullets of bs, by index, that overlap player p and are not its own
HitsOn(bs, p) ==
    { j \in 1 .. Len(bs) :
        Overlap(p, PLAYER_RADIUS, bs[j], BULLET_RADIUS) /\ bs[j].player_id # p.id }
FirstHitOn(bs, p) == CHOOSE j \in HitsOn(bs, p) : \A k \in HitsOn(bs, p) : j <= k
Bonus(o, id) == IF id \in o.rewarded THEN 1 ELSE 0

\* C7 as stated: in the player-projectile step every player overlapping a
\* bullet of another owner becomes a corpse, every such bullet is removed, an
\* owner gains 1 for each player its bullets overlap; a player overlapping no
\* bullet of another owner stays live.
C7_Original ==
    [][ op'.kind = "tick" =>
          LET m == mid_tick(Self, op'.dt, now)
          IN  /\ \A i \in 1 .. Len(m.players) :
                    \A j \in HitsOn(m.bullets, m.players[i]) :
                        /\ m.players[i].id \in DeadIds' \ LiveIds'
                        /\ m.bullets[j].id \notin BulletIds(bullets')
              /\ \A i \in 1 .. Len(m.players) :
                    HitsOn(m.bullets, m.players[i]) = {} => m.players[i].id \in LiveIds'
              /\ \A o \in env.ids :
                    Score(o)' = Score(o) + Bonus(op', o)
                        + Cardinality({ i \in 1 .. Len(m.players) :
                            \E j \in HitsOn(m.bullets, m.players[i]) :
                                m.bullets[j].player_id = o }) ]_vars

\* C7, amended: every player overlapping a bullet of another owner becomes a
\* corpse; of the bullets of other owners that overlap it, the first in the
\* list is removed and its owner gains 1; a bullet that is the first for no
\* player stays, and a player overlapping no bullet of another owner stays live.
C7_Hits ==
    [][ op'.kind = "tick" =>
          LET m == mid_tick(Self, op'.dt, now)
          IN  /\ \A i \in 1 .. Len(m.players) :
                    IF HitsOn(m.bullets, m.players[i]) = {}
                    THEN m.players[i].id \in LiveIds' \ DeadIds'
                    ELSE m.players[i].id \in DeadIds' \ LiveIds'
              /\ \A j \in 1 .. Len(m.bullets) :
                    m.bullets[j].id \in BulletIds(bullets') <=>
                        ~ \E i \in 1 .. Len(m.players) :
                            /\ HitsOn(m.bullets, m.players[i]) # {}
                            /\ FirstHitOn(m.bullets, m.players[i]) = j
              /\ \A o \in env.ids :
                    Score(o)' = Score(o) + Bonus(op', o)
                        + Cardinality({ i \in 1 .. Len(m.players) :
                            /\ HitsOn(m.bullets, m.players[i]) # {}
                            /\ m.bullets[FirstHitOn(m.bullets, m.players[i])].player_id = o }) ]_vars

\* a tick in which a bullet killed a player while another bullet stayed
C7_Witness ==
    /\ op.kind = "tick"
    /\ op.shot # {}
    /\ bullets # << >>

\* C8 as stated: two bullets of different ids that overlap after the motion of
\* a tick are both gone after it, and two players of different ids that
\* overlap after the motion of a tick are both killed by it.
C8_Original ==
    [][ op'.kind = "tick" =>
          LET bs == MapSeq(LAMBDA b : advance_bullet(b, op'.dt), bullets)
              ps == moved_players(Self, op'.dt, now)
          IN  /\ \A i, j \in 1 .. Len(bs) :
                    (bs[i].id # bs[j].id
                        /\ Overlap(bs[i], BULLET_RADIUS, bs[j], BULLET_RADIUS))
                    => bs[i].id \notin BulletIds(bullets')
              /\ \A i, j \in 1 .. Len(ps) :
                    (ps[i].id # ps[j].id
                        /\ Overlap(ps[i], PLAYER_RADIUS, ps[j], PLAYER_RADIUS))
                    => ps[i].id \in (op'.collided \cap DeadIds') \ LiveIds' ]_vars

\* C8, amended: two bullets of different ids that overlap after the motion and
\* the culling of a tick are both gone after it, and two players of different
\* ids that overlap after the motion of a tick are both killed by it.
C8_Symmetric ==
    [][ op'.kind = "tick" =>
          LET bs == kept_bullets(Self, op'.dt)
              ps == moved_players(Self, op'.dt, now)
          IN  /\ \A i, j \in 1 .. Len(bs) :
                    (bs[i].id # bs[j].id
                        /\ Overlap(bs[i], BULLET_RADIUS, bs[j], BULLET_RADIUS))
                    => bs[i].id \notin BulletIds(bullets')
              /\ \A i, j \in 1 .. Len(ps) :
                    (ps[i].id # ps[j].id
                        /\ Overlap(ps[i], PLAYER_RADIUS, ps[j], PLAYER_RADIUS))
                    => ps[i].id \in (op'.collided \cap DeadIds') \ LiveIds' ]_vars

\* a tick killed three players that overlapped, not all of them pairwise
C8_Witness ==
    /\ op.kind = "tick"
    /\ Cardinality(op.collided) >= 3
    /\ op.collided \subseteq DeadIds

\* C9: reset makes live exactly the ids that were live or corpses, leaves no
\* corpse, no bullet and no score, and sets every survival time to now + 10 s.
C9_Reset ==
    [][ op'.kind = "reset" =>
          /\ LiveIds' = LiveIds \cup DeadIds
          /\ \A id \in LiveIds' : Count(players', id) = 1
          /\ dead' = << >>
          /\ bullets' = << >>
          /\ DOMAIN scoreboard' = {}
          /\ DOMAIN survival_times' = LiveIds'
          /\ \A id \in LiveIds' : survival_times'[id] = now + 10 ]_vars

\* a reset, later than the start, of a game with a live player and a corpse
C9_Witness ==
    /\ op.kind = "reset"
    /\ op.revived # {}
    /\ LiveIds \ op.revived # {}
    /\ now > 0

\* C10: handle_cmd for an id that is not live changes nothing of the engine.
C10_NotLive ==
    [][ (op'.kind = "cmd" /\ op'.id \notin LiveIds) => UNCHANGED game ]_vars

\* a Fire for a corpse was dropped
C10_Witness ==
    /\ op.kind = "cmd"
    /\ op.cmd = "Fire"
    /\ op.id \in DeadIds
    /\ ~op.changed

\* the bullets after the motion of a tick of dt, before the culling
MovedBullets(dt) == MapSeq(LAMBDA b : advance_bullet(b, dt), bullets)
WithinReach(b) ==
    /\ -BULLET_RADIUS < b.x /\ b.x < config.bound_x + BULLET_RADIUS
    /\ -BULLET_RADIUS < b.y /\ b.y < config.bound_y + BULLET_RADIUS

\* C11: the culling of a tick keeps exactly the bullets that are, after the
\* motion, less than a bullet radius outside the bounds on both axes.
C11_Culling ==
    [][ op'.kind = "tick" =>
          kept_bullets(Self, op'.dt) = SelectSeq(MovedBullets(op'.dt), WithinReach) ]_vars

\* the kill points a step credits to id: the rise of its score less its bonus
KillPoints(id) == Score(id)' - Score(id) - Bonus(op', id)
RECURSIVE SumOf(_)
SumOf(f) ==
    IF DOMAIN f = {} THEN 0
    ELSE LET k == CHOOSE x \in DOMAIN f : TRUE
         IN  f[k] + SumOf([ x \in DOMAIN f \ {k} |-> f[x] ])

\* C12: the players that overlap another player after the motion of a tick
\* all become corpses, and the kill points of the tick are as many as the
\* players its bullets killed, none of them a player the collision killed:
\* a death by collision credits nobody, whatever bullet overlaps the player.
C12_NoScore ==
    [][ op'.kind = "tick" =>
          LET ps == moved_players(Self, op'.dt, now)
          IN  /\ \A i, j \in 1 .. Len(ps) :
                    (ps[i].id # ps[j].id
                        /\ Overlap(ps[i], PLAYER_RADIUS, ps[j], PLAYER_RADIUS))
                    => ps[i].id \in (DeadIds' \ LiveIds') \ op'.shot
              /\ \A id \in env.ids : KillPoints(id) >= 0
              /\ SumOf([ id \in env.ids |-> KillPoints(id) ]) = Cardinality(op'.shot)
              /\ op'.shot \cap op'.collided = {} ]_vars

\* a tick in which two players collided under the bullet of a third, who
\* got nothing
C12_Witness ==
    /\ op.kind = "tick"
    /\ op.grazed # {}
    /\ op.shot = {}
    /\ \E i \in 1 .. Len(bullets) :
          /\ bullets[i].player_id \in LiveIds \ op.collided
          /\ Score(bullets[i].player_id) = 0

C14_PlayerLeft ==
    [][ op'.kind = "left" =>
          /\ op'.id \notin LiveIds' \cup DeadIds' \cup DOMAIN survival_times'
          /\ players' = SelectSeq(players, LAMBDA p : p.id # op'.id)
          /\ dead' = SelectSeq(dead, LAMBDA c : c.player.id # op'.id)
          /\ DOMAIN survival_times' = DOMAIN survival_times \ {op'.id}
          /\ \A k \in DOMAIN survival_times' : survival_times'[k] = survival_times[k]
          /\ op'.id \notin LiveIds \cup DeadIds => UNCHANGED game ]_vars

\* a player left a game in which another player is live and another a corpse
C14_Witness ==
    /\ op.kind = "left"
    /\ op.changed
    /\ LiveIds # {}
    /\ DeadIds # {}

\* C15: reset runs only for a request that passed the authentication, dev
\* mode or a key of the configuration.
C15_Privileged == [][ op'.kind = "reset" => authenticated(op'.key) ]_vars

\* ------------------------------------------------------------ the mailbox
\* The coordinator owns the engine and a mailbox.  The session handlers, the
\* timer and the reset endpoint run concurrently: each sends its messages, in
\* its own order, to the mailbox; the coordinator takes one message at a time
\* from the mailbox and applies it to the engine to completion.
Join(player_id) == [ kind |-> "join", id |-> player_id, cmd |-> Fire, dt |-> 0 ]
Leave(player_id) == [ kind |-> "leave", id |-> player_id, cmd |-> Fire, dt |-> 0 ]
Command(player_id, cmd) == [ kind |-> "cmd", id |-> player_id, cmd |-> cmd, dt |-> 0 ]
TimerTick(dt) == [ kind |-> "tick", id |-> 0, cmd |-> Fire, dt |-> dt ]
ResetMessage == [ kind |-> "reset", id |-> 0, cmd |-> Fire, dt |-> 0 ]

\* what each sender sends, in its order
Scripts ==
    [ session1 |-> << Join(1), Command(1, Fire), Leave(1) >>,
      session2 |-> << Join(2), Command(2, Rotate(2)) >>,
      timer |-> << TimerTick(1) >>,
      endpoint |-> << ResetMessage >> ]

Arena ==
    [ name |-> "arena", config |-> Wide, ids |-> {1, 2},
      pos |-> { <<10, 10>>, <<30, 10>> }, cmds |-> {}, ammo |-> MaxBulletId - 4,
      sleeps |-> {}, start |-> 0, dev_mode |-> FALSE, keys |-> {"player"} ]

MailboxInit ==
    /\ env = Arena
    /\ config = env.config
    /\ players = << >>
    /\ dead = << >>
    /\ bullets = << >>
    /\ scoreboard = EmptyMap
    /\ bullet_id_counter = env.start
    /\ survival_times = EmptyMap
    /\ now = 0
    /\ connected = {}
    /\ op = NoOp
    /\ coordinator = [ mailbox |-> << >>, pending |-> Scripts, log |-> << >> ]

\* do_send: a sender puts its next message at the end of the mailbox
Send(sender) ==
    /\ coordinator.pending[sender] # << >>
    /\ coordinator' =
          [ coordinator EXCEPT
              !.mailbox = Append(@, [ sender |-> sender,
                                      msg |-> Head(coordinator.pending[sender]) ]),
              !.pending[sender] = Tail(@) ]
    /\ UNCHANGED << game, now, connected, op, env >>

\* a coordinator that handles the newest message first
newest_message(mailbox) == mailbox[Len(mailbox)]

\* the message the coordinator handles next
next_message(mailbox) == Head(mailbox)

\* the ids whose position the rng draws while message m is applied to g
drawn(g, m, t) ==
    CASE m.kind = "join" -> {m.id}
      [] m.kind = "tick" ->
            dying(tick(g, m.dt, t, [ id \in Ids_of(g.players) \cup Ids_of(Corpses(g.dead))
                                       |-> << 0, 0 >> ]))
      [] m.kind = "reset" -> Ids_of(g.players) \cup Ids_of(Corpses(g.dead))
      [] OTHER -> {}

\* the handler of the coordinator for message m, with the draws rnd of the rng
handle(g, m, rnd, t) ==
    CASE m.kind = "join" -> add_player(g, m.id, rnd[m.id], t)
      [] m.kind = "leave" -> player_left(g, m.id)
      [] m.kind = "cmd" -> handle_cmd(g, m.id, m.cmd)
      [] m.kind = "tick" -> tick(g, m.dt, t, rnd).game
      [] m.kind = "reset" -> reset(g, rnd, t)

DeliverTo(m, ids) ==
    \E rnd \in [ ids -> RandomPositions(config, env.pos) ] :
        /\ Becomes(handle(Self, m.msg, rnd, now))
        /\ coordinator' =
              [ coordinator EXCEPT
                  !.mailbox = Tail(@),
                  !.log = Append(@, [ sender |-> m.sender, msg |-> m.msg, rnd |-> rnd ]) ]
        /\ connected' = CASE m.msg.kind = "join" -> connected \cup {m.msg.id}
                          [] m.msg.kind = "leave" -> connected \ {m.msg.id}
                          [] OTHER -> connected
        /\ op' = [ NoOp EXCEPT !.kind = m.msg.kind, !.id = m.msg.id ]
        /\ UNCHANGED << now, env >>

\* the coordinator handles the next message of its mailbox
Deliver ==
    /\ coordinator.mailbox # << >>
    /\ DeliverTo(next_message(coordinator.mailbox),
                 drawn(Self, next_message(coordinator.mailbox).msg, now))

MailboxNext ==
    \/ \E sender \in DOMAIN Scripts : Send(sender)
    \/ Deliver

MailboxSpec == MailboxInit /\ [][MailboxNext]_vars


\* the messages of sender among the entries xs of the mailbox or of the log
MessagesOf(xs, sender) ==
    LET own == SelectSeq(xs, LAMBDA x : x.sender = sender)
    IN  [ i \in 1 .. Len(own) |-> own[i].msg ]

\* the engine after the messages of log, handled one after the other from
\* the start
RECURSIVE Replay(_)
Replay(log) ==
    IF log = << >> THEN [ new_game(env.config) EXCEPT !.bullet_id_counter = env.start ]
    ELSE LET e == log[Len(log)]
         IN  handle(Replay(SubSeq(log, 1, Len(log) - 1)), e.msg, e.rnd, now)

C17_ClockKeys ==
    /\ DOMAIN survival_times = LiveIds \cup DeadIds
    /\ DOMAIN survival_times = connected

\* a tick in which a bullet killed a player, with a player live and a corpse
C17_Witness ==
    /\ op.kind = "tick"
    /\ op.shot # {}
    /\ LiveIds # {}
    /\ DeadIds # {}
    /\ DOMAIN survival_times = connected


\* C18: a tick makes a player a corpse at most once; its kill points are as
\* many as the players its bullets killed; of the bullets of other owners over
\* a player, those that are not the first stay active unless they are the
\* first over another player.
C18_OneKill ==
    [][ op'.kind = "tick" =>
          LET m == mid_tick(Self, op'.dt, now)
          IN  /\ \A id \in env.ids : Count(Corpses(dead'), id) <= 1
              /\ Len(dead') = Len(m.dead) + Cardinality(op'.collided \cup op'.shot)
              /\ SumOf([ id \in env.ids |-> KillPoints(id) ]) = Cardinality(op'.shot)
              /\ \A i \in 1 .. Len(m.players) :
                    \A j \in HitsOn(m.bullets, m.players[i]) :
                        \/ j = FirstHitOn(m.bullets, m.players[i])
                        \/ m.bullets[j].id \in BulletIds(bullets')
                        \/ \E k \in 1 .. Len(m.players) :
                              /\ HitsOn(m.bullets, m.players[k]) # {}
                              /\ FirstHitOn(m.bullets, m.players[k]) = j ]_vars

\* a tick in which a player under two bullets was killed for one point, the
\* other bullet staying active
C18_Witness ==
    /\ op.kind = "tick"
    /\ Cardinality(op.shot) = 1
    /\ op.spared # {}
    /\ op.spared \subseteq BulletIds(bullets)
    /\ \E id \in env.ids : Score(id) = 1 /\ \A o \in env.ids \ {id} : Score(o) = 0


\* the bullets of one player at one position with one heading: with a bullet
\* of the list, by index, those that a Fire with no tick and no Rotate since
\* the Fire of that bullet created
Twin(bs, i, j) ==
    /\ i # j
    /\ bs[i].player_id = bs[j].player_id
    /\ bs[i].x = bs[j].x /\ bs[i].y = bs[j].y /\ bs[i].angle = bs[j].angle
Twins(bs) == { i \in 1 .. Len(bs) : \E j \in 1 .. Len(bs) : Twin(bs, i, j) }
\* a Fire of the live player id that creates a bullet creates bullet nb
FiredBy(id, nb) ==
    \E i \in 1 .. Len(players) :
        /\ players[i].id = id
        /\ nb.player_id = id
        /\ nb.angle = players[i].angle
        /\ nb.x = players[i].x + angle_to_vector(players[i].angle)[1] * 5
        /\ nb.y = players[i].y + angle_to_vector(players[i].angle)[2] * 5
\* a command moves no player, and turns none unless it is a Rotate
Still ==
    /\ Len(players') = Len(players)
    /\ \A i \in 1 .. Len(players) :
          /\ players'[i].x = players[i].x /\ players'[i].y = players[i].y
          /\ op'.cmd # "Rotate" => players'[i].angle = players[i].angle

\* C19 as stated: a bullet is created ahead of its player, with its heading,
\* and no command but a Rotate changes where that is; the bullets that share
\* owner, position and heading are all removed by the bullet-bullet collision
\* step of the next tick.
C19_Original ==
    [][ /\ op'.kind = "cmd" =>
              /\ Still
              /\ bullets' # bullets => FiredBy(op'.id, bullets'[Len(bullets')])
        /\ op'.kind = "tick" =>
              \A i \in Twins(bullets) :
                  /\ bullets[i].id \in Ids_of(kept_bullets(Self, op'.dt))
                  /\ bullets[i].id \in op'.clashed ]_vars

\* C19, amended: the bullets that share owner, position and heading are all
\* removed by the next tick before it looks for hits, by its culling or by its
\* bullet-bullet collision step, so that none of them hits a player.
C19_Twins ==
    [][ /\ op'.kind = "cmd" =>
              /\ Still
              /\ bullets' # bullets => FiredBy(op'.id, bullets'[Len(bullets')])
        /\ op'.kind = "tick" =>
              \A i \in Twins(bullets) :
                  /\ \/ bullets[i].id \notin Ids_of(kept_bullets(Self, op'.dt))
                     \/ bullets[i].id \in op'.clashed
                  /\ bullets[i].id \notin Ids_of(mid_tick(Self, op'.dt, now).bullets)
                  /\ bullets[i].id \notin BulletIds(bullets') ]_vars

\* a tick in which bullets collided with each other next to a live player, no
\* player being shot
C19_Witness ==
    /\ op.kind = "tick"
    /\ Cardinality(op.clashed) >= 2
    /\ op.shot = {}
    /\ Cardinality(LiveIds) >= 2


\* ------------------------------------------------------------ the timer
\* The timer of the coordinator fires again and again: tick is fair.  The
\* world of this specification is one where a player fires up to the cap; the
\* clients join and reset only while the scores they can lead to are within
\* MaxScore, so that a tick is always possible.
Range40 ==
    [ name |-> "range", config |-> Wide, ids |-> {1, 2},
      pos |-> { <<10, 10>>, <<30, 10>> },
      cmds |-> { <<1, Fire>> }, ammo |-> MaxBulletId,
      sleeps |-> {}, start |-> 0, dev_mode |-> FALSE, keys |-> {"player"} ]

TimerInit ==
    /\ env = Range40
    /\ config = env.config
    /\ players = << >>
    /\ dead = << >>
    /\ bullets = << >>
    /\ scoreboard = EmptyMap
    /\ bullet_id_counter = env.start
    /\ survival_times = EmptyMap
    /\ now = 0
    /\ connected = {}
    /\ op = NoOp
    /\ coordinator = Idle

\* the players that send commands; they stay connected, the others come and go
Shooters == { m[1] : m \in env.cmds }
TotalScore == SumOf([ id \in env.ids |-> Score(id) ])
TimerTick1 == (\E dt \in Dts : Tick(dt)) /\ UNCHANGED coordinator

TimerNext ==
    \/ /\ TotalScore + Len(players) + 1 <= MaxScore
       /\ \E id \in env.ids \ connected : AddPlayer(id)
       /\ UNCHANGED coordinator
    \/ (\E id \in env.ids \ Shooters : PlayerLeft(id)) /\ UNCHANGED coordinator
    \/ (\E m \in env.cmds : HandleCmd(m[1], m[2])) /\ UNCHANGED coordinator
    \/ TimerTick1
    \/ /\ Len(players) + Len(dead) <= MaxScore
       /\ Reset
       /\ UNCHANGED coordinator

TimerSpec == TimerInit /\ [][TimerNext]_vars /\ WF_vars(TimerTick1)

\* C20: with the timer firing again and again, a bullet that is active is
\* removed at some time, and a player at the cap of 4 active bullets is below
\* the cap at some time.
C20_BulletsLeave ==
    /\ \A b \in 0 .. MaxBulletId : []<>(b \notin BulletIds(bullets))
    /\ \A id \in {1, 2} : []<>(active_bullets(bullets, id) < MAX_CONCURRENT_BULLETS)

\* a tick removed the four bullets of a live player at the cap
C20_Witness ==
    /\ op.kind = "tick"
    /\ Cardinality(op.clashed) = MAX_CONCURRENT_BULLETS
    /\ bullets = << >>
    /\ 1 \in LiveIds

\* a tick is always possible: the bound on the scores never stops the timer
TimerNeverBlocked ==
    \A k \in DOMAIN tick(Self, 1, now, NoDraw).game.scoreboard :
        tick(Self, 1, now, NoDraw).game.scoreboard[k] <= MaxScore

====
